---- MODULE Spec2Model ----
(***************************************************************************)
(* A model of src/client.py: the six client functions of the Polly API     *)
(* (register_user, get_polls, login, create_poll, cast_vote,               *)
(* get_poll_results) and the example driver under                          *)
(* `if __name__ == "__main__"'.                                            *)
(*                                                                         *)
(* Spec        the module imported as a library: a caller invokes the six  *)
(*             functions in any order with any arguments, and the network  *)
(*             answers each request in any way it can.                     *)
(* DriverSpec  the module run as a script: Steps 1 to 5 of the driver.     *)
(*                                                                         *)
(* The `requests' library is modelled as released since 2.27:              *)
(*   - Response.raise_for_status() raises HTTPError exactly for            *)
(*     400 <= status_code < 600;                                           *)
(*   - Response.json() raises requests.exceptions.JSONDecodeError, a       *)
(*     subclass of InvalidJSONError, itself a RequestException;            *)
(*   - a request that gets no response raises ConnectionError or Timeout,  *)
(*     both RequestException.                                              *)
(* The response handed to the code is the one requests.get/post returns    *)
(* (after any redirect the library followed by itself).                    *)
(***************************************************************************)
EXTENDS Integers, Sequences, FiniteSets, TLC

VARIABLES
    pc,                 \* "imported", or the driver's position
    calls,              \* client-function calls completed so far
    n_requests,         \* requests.get/post invocations so far
    last,               \* the last client-function call: op, args, net, result
    earlier_tokens,     \* tokens passed to calls before the last one (history)
    main_username,           \* driver, line 186
    new_user,           \* driver, line 191
    login_response,     \* driver, line 202
    main_token,         \* driver, line 203: token
    new_poll,           \* driver, line 218
    main_poll_id,            \* driver, line 222
    main_option_id,          \* driver, line 224
    vote_confirmation,  \* driver, line 238
    results,            \* driver, line 250
    stdout,             \* driver: the progress lines printed so far
    trace,              \* driver: the client calls made so far (history)
    uncaught            \* driver: class of the exception that ended the run

vars == <<pc, calls, n_requests, last, earlier_tokens, main_username, new_user,
          login_response, main_token, new_poll, main_poll_id, main_option_id,
          vote_confirmation, results, stdout, trace, uncaught>>

driver_vars == <<main_username, new_user, login_response, main_token, new_poll, main_poll_id,
                 main_option_id, vote_confirmation, results, stdout, trace, uncaught>>

----------------------------------------------------------------------------
(* Python values.  A dict is its items in insertion order. *)

PyNone == [t |-> "None"]

PyStr(s) == [t |-> "str", s |-> s]

PyInt(n) == [t |-> "int", n |-> n]

PyList(items) == [t |-> "list", items |-> items]

PyDict(items) == [t |-> "dict", items |-> items]

\* A name that no assignment has bound yet.
Unbound == [t |-> "unbound"]

\* bool(v), as `not v' uses it.
truthy(v) ==
    CASE v.t = "None" -> FALSE
      [] v.t = "str"  -> v.s # ""
      [] v.t = "int"  -> v.n # 0
      [] v.t = "list" -> Len(v.items) > 0
      [] v.t = "dict" -> Len(v.items) > 0

\* str(v), as an f-string formats v.
py_str(v) ==
    CASE v.t = "str"  -> v.s
      [] v.t = "int"  -> ToString(v.n)
      [] v.t = "None" -> "None"

has_key(d, key) == \E i \in DOMAIN d.items : d.items[i][1] = key

lookup(d, key) ==
    d.items[CHOOSE i \in DOMAIN d.items : d.items[i][1] = key][2]

\* The outcome of an expression: a value, or the class of the exception raised.
Value(v) == [raised |-> FALSE, value |-> v, class |-> "none"]

Raises(class) == [raised |-> TRUE, value |-> PyNone, class |-> class]

\* v.get(key, default): only a dict has .get
dict_get(v, key, default) ==
    IF v.t # "dict" THEN Raises("AttributeError")
    ELSE IF has_key(v, key) THEN Value(lookup(v, key))
    ELSE Value(default)

\* v[0]
first_item(v) ==
    CASE v.t = "list" -> IF Len(v.items) > 0 THEN Value(v.items[1])
                         ELSE Raises("IndexError")
      [] v.t = "dict" -> Raises("KeyError")
      [] v.t = "None" -> Raises("TypeError")
      [] v.t = "int"  -> Raises("TypeError")

----------------------------------------------------------------------------
(* json.dumps with its default separators, for the values the code passes. *)

RECURSIVE json_dumps(_), dumps_list(_), dumps_members(_)

json_dumps(v) ==
    CASE v.t = "None" -> "null"
      [] v.t = "str"  -> "\"" \o v.s \o "\""
      [] v.t = "int"  -> ToString(v.n)
      [] v.t = "list" -> "[" \o dumps_list(v.items) \o "]"
      [] v.t = "dict" -> "{" \o dumps_members(v.items) \o "}"

dumps_list(items) ==
    IF items = <<>> THEN ""
    ELSE json_dumps(Head(items))
         \o (IF Len(items) > 1 THEN ", " ELSE "")
         \o dumps_list(Tail(items))

dumps_members(items) ==
    IF items = <<>> THEN ""
    ELSE "\"" \o Head(items)[1] \o "\": " \o json_dumps(Head(items)[2])
         \o (IF Len(items) > 1 THEN ", " ELSE "")
         \o dumps_members(Tail(items))

\* The urlencoded form requests builds from data=<dict> (line 79); the
\* values used here hold no character that needs escaping.
RECURSIVE urlencode(_)

urlencode(items) ==
    IF items = <<>> THEN ""
    ELSE Head(items)[1] \o "=" \o py_str(Head(items)[2])
         \o (IF Len(items) > 1 THEN "&" ELSE "")
         \o urlencode(Tail(items))

----------------------------------------------------------------------------
(* The bodies the server can answer with: the JSON documents, each with    *)
(* the Python value json.loads gives for it, and two bodies that are not   *)
(* JSON.                                                                   *)

Documents ==
    { [text  |-> "{\"id\": 1, \"username\": \"alice\"}",
       value |-> PyDict(<< <<"id", PyInt(1)>>, <<"username", PyStr("alice")>> >>)],
      [text  |-> "{\"access_token\": \"tok1\", \"token_type\": \"bearer\"}",
       value |-> PyDict(<< <<"access_token", PyStr("tok1")>>,
                           <<"token_type", PyStr("bearer")>> >>)],
      [text  |-> "{\"access_token\": \"tok2\"}",
       value |-> PyDict(<< <<"access_token", PyStr("tok2")>> >>)],
      [text  |-> "{\"access_token\": \"\"}",
       value |-> PyDict(<< <<"access_token", PyStr("")>> >>)],
      [text  |-> "{\"access_token\": null}",
       value |-> PyDict(<< <<"access_token", PyNone>> >>)],
      [text  |-> "[]",
       value |-> PyList(<< >>)],
      [text  |-> "{\"id\": 7, \"options\": [{\"id\": 3}, {\"id\": 4}]}",
       value |-> PyDict(<< <<"id", PyInt(7)>>,
                           <<"options", PyList(<< PyDict(<< <<"id", PyInt(3)>> >>),
                                                  PyDict(<< <<"id", PyInt(4)>> >>) >>)>> >>)],
      [text  |-> "{\"id\": 0, \"options\": [{\"id\": 3}]}",
       value |-> PyDict(<< <<"id", PyInt(0)>>,
                           <<"options", PyList(<< PyDict(<< <<"id", PyInt(3)>> >>) >>)>> >>)],
      [text  |-> "{\"id\": 7, \"options\": [{\"id\": 0}]}",
       value |-> PyDict(<< <<"id", PyInt(7)>>,
                           <<"options", PyList(<< PyDict(<< <<"id", PyInt(0)>> >>) >>)>> >>)],
      [text  |-> "{\"id\": 7, \"options\": []}",
       value |-> PyDict(<< <<"id", PyInt(7)>>, <<"options", PyList(<< >>)>> >>)],
      [text  |-> "{\"id\": 8}",
       value |-> PyDict(<< <<"id", PyInt(8)>> >>)] }

NotJson == {"", "<html>Bad Gateway</html>"}

Texts == {d.text : d \in Documents} \cup NotJson

\* The status codes the server can answer with.
Statuses == {101, 200, 201, 304, 400, 401, 404, 500, 599, 600}

ReasonPhrase(status) ==
    CASE status = 101 -> "Switching Protocols"
      [] status = 200 -> "OK"
      [] status = 201 -> "Created"
      [] status = 304 -> "Not Modified"
      [] status = 400 -> "Bad Request"
      [] status = 401 -> "Unauthorized"
      [] status = 404 -> "Not Found"
      [] status = 500 -> "Internal Server Error"
      [] OTHER        -> ""

\* What the network does with one request: no response at all, or a response.
NoResponse == {"ConnectionError", "Timeout"}

Net ==
    [kind : {"no_response"}, class : NoResponse]
    \cup [kind : {"response"}, status_code : Statuses, text : Texts]

----------------------------------------------------------------------------
(* The requests library. *)

NoException == [class |-> "none", msg |-> "", response |-> PyNone]

Exception(class, msg, response) ==
    [class |-> class, msg |-> msg, response |-> response]

\* requests.exceptions: every class the library raises here is a
\* RequestException; JSONDecodeError is one through InvalidJSONError.
Bases(class) ==
    CASE class = "HTTPError"        -> {"HTTPError", "RequestException"}
      [] class = "ConnectionError"  -> {"ConnectionError", "RequestException"}
      [] class = "Timeout"          -> {"Timeout", "RequestException"}
      [] class = "JSONDecodeError"  -> {"JSONDecodeError", "InvalidJSONError",
                                        "RequestException"}
      [] OTHER                      -> {class}

isinstance(exc, class) == class \in Bases(exc.class)

Request(method, url, data, headers) ==
    [method |-> method, url |-> url, data |-> data, headers |-> headers]

\* requests.post(url, data=..., headers=...)
requests_post(url, data, headers) == Request("POST", url, data, headers)

\* requests.get(url, params=...): the library appends the query string.
requests_get(url, params) ==
    Request("GET",
            IF params = <<>> THEN url ELSE url \o "?" \o urlencode(params),
            "", <<>>)

Response(net) ==
    [status_code |-> net.status_code, reason |-> ReasonPhrase(net.status_code),
     text |-> net.text]

\* Faulty variant: only server errors raise.
raise_for_status_5xx(response, url) ==
    IF 500 <= response.status_code /\ response.status_code < 600
    THEN Exception("HTTPError",
                   ToString(response.status_code) \o " Server Error: "
                       \o response.reason \o " for url: " \o url,
                   response)
    ELSE NoException

\* Response.raise_for_status(): the HTTPError it raises, or NoException.
raise_for_status(response, url) ==
    IF 400 <= response.status_code /\ response.status_code < 500
    THEN Exception("HTTPError",
                   ToString(response.status_code) \o " Client Error: "
                       \o response.reason \o " for url: " \o url,
                   response)
    ELSE IF 500 <= response.status_code /\ response.status_code < 600
    THEN Exception("HTTPError",
                   ToString(response.status_code) \o " Server Error: "
                       \o response.reason \o " for url: " \o url,
                   response)
    ELSE NoException

\* Faulty variant: a body that is not JSON parses to None.
json_loads_lenient(text) ==
    IF \E d \in Documents : d.text = text
    THEN Value((CHOOSE d \in Documents : d.text = text).value)
    ELSE Value(PyNone)

\* json.loads of a response body.
json_loads(text) ==
    IF \E d \in Documents : d.text = text
    THEN Value((CHOOSE d \in Documents : d.text = text).value)
    ELSE Raises("JSONDecodeError")

\* Faulty variant: the body is returned as text, unparsed.
response_json_text(response) ==
    [raised |-> FALSE, value |-> PyStr(response.text), exc |-> NoException]

\* Response.json(): the parsed body, or the JSONDecodeError raised.
response_json(response) ==
    LET parsed == json_loads(response.text)
    IN  IF parsed.raised
        THEN [raised |-> TRUE, value |-> PyNone,
              exc |-> Exception("JSONDecodeError",
                                "Expecting value: line 1 column 1 (char 0)",
                                PyNone)]
        ELSE [raised |-> FALSE, value |-> parsed.value, exc |-> NoException]

\* How a client function ends: the requests it issued, the response it got
\* (PyNone when there was none), the lines it printed, and either the value
\* it returns or the exception it raises.
Outcome(requests, response, exc, value, printed) ==
    [requests |-> requests, response |-> response,
     raised |-> exc.class # "none", exc |-> exc, value |-> value,
     stdout |-> printed]

\* Faulty variant: a request that got no response is sent again.
try_body_retry(request, net) ==
    IF net.kind = "no_response"
    THEN Outcome(<<request, request>>, PyNone,
                 Exception(net.class, "no response from " \o request.url, PyNone),
                 PyNone, <<>>)
    ELSE LET response == Response(net)
             http_err == raise_for_status(response, request.url)
         IN  IF http_err.class # "none"
             THEN Outcome(<<request>>, response, http_err, PyNone, <<>>)
             ELSE LET parsed == response_json(response)
                  IN  Outcome(<<request>>, response, parsed.exc, parsed.value, <<>>)

\* The body of the try statement, the same three lines in the six functions:
\*     response = requests.post(...)      (or requests.get)
\*     response.raise_for_status()
\*     return response.json()
try_body(request, net) ==
    IF net.kind = "no_response"
    THEN Outcome(<<request>>, PyNone,
                 Exception(net.class, "no response from " \o request.url, PyNone),
                 PyNone, <<>>)
    ELSE LET response == Response(net)
             http_err == raise_for_status(response, request.url)
         IN  IF http_err.class # "none"
             THEN Outcome(<<request>>, response, http_err, PyNone, <<>>)
             ELSE LET parsed == response_json(response)
                  IN  Outcome(<<request>>, response, parsed.exc, parsed.value, <<>>)

\* Faulty variant: the except clause prints and does not raise.
reraise_swallow(t, printed) ==
    Outcome(t.requests, t.response, NoException, PyNone, printed)

\* An except clause that prints and ends with a bare `raise'.
reraise(t, printed) ==
    Outcome(t.requests, t.response, t.exc, PyNone, printed)

\* Faulty variant: a token kept from an earlier call.
bearer_fixed(token) == "Bearer " \o "tok1"

\* f"Bearer {token}"
bearer(token) == "Bearer " \o py_str(token)

json_headers == "Content-Type" :> "application/json"

auth_headers(token) ==
    ("Content-Type" :> "application/json") @@ ("Authorization" :> bearer(token))

----------------------------------------------------------------------------
(* The six client functions.  `net' is what the network does with the     *)
(* request the call issues.                                                *)

register_user(username, password, base_url, net) ==
    LET register_url == base_url \o "/register"
        user_data == PyDict(<< <<"username", username>>, <<"password", password>> >>)
        headers == json_headers
        t == try_body(requests_post(register_url, json_dumps(user_data), headers), net)
    IN  IF ~t.raised THEN t
        ELSE IF isinstance(t.exc, "HTTPError")
        THEN reraise(t, <<"HTTP error occurred: " \o t.exc.msg>>
                        \o (IF t.response.status_code = 400
                            THEN <<"Username may already be registered.">>
                            ELSE <<>>))
        ELSE IF isinstance(t.exc, "RequestException")
        THEN reraise(t, <<"A request error occurred: " \o t.exc.msg>>)
        ELSE t

\* Faulty variant: get_polls prints a hint on 404.
get_polls_hint(skip, limit, base_url, net) ==
    LET polls_url == base_url \o "/polls"
        params == << <<"skip", skip>>, <<"limit", limit>> >>
        t == try_body(requests_get(polls_url, params), net)
    IN  IF ~t.raised THEN t
        ELSE IF isinstance(t.exc, "HTTPError")
        THEN reraise(t, <<"HTTP error occurred: " \o t.exc.msg>>
                        \o (IF t.response.status_code = 404
                            THEN <<"Poll not found.">>
                            ELSE <<>>))
        ELSE IF isinstance(t.exc, "RequestException")
        THEN reraise(t, <<"A request error occurred: " \o t.exc.msg>>)
        ELSE t

get_polls(skip, limit, base_url, net) ==
    LET polls_url == base_url \o "/polls"
        params == << <<"skip", skip>>, <<"limit", limit>> >>
        t == try_body(requests_get(polls_url, params), net)
    IN  IF ~t.raised THEN t
        ELSE IF isinstance(t.exc, "HTTPError")
        THEN reraise(t, <<"HTTP error occurred: " \o t.exc.msg>>)
        ELSE IF isinstance(t.exc, "RequestException")
        THEN reraise(t, <<"A request error occurred: " \o t.exc.msg>>)
        ELSE t

login(username, password, base_url, net) ==
    LET login_url == base_url \o "/login"
        form_data == << <<"username", username>>, <<"password", password>> >>
        headers == "Content-Type" :> "application/x-www-form-urlencoded"
        t == try_body(requests_post(login_url, urlencode(form_data), headers), net)
    IN  IF ~t.raised THEN t
        ELSE IF isinstance(t.exc, "HTTPError")
        THEN reraise(t, <<"HTTP error occurred: " \o t.exc.msg>>
                        \o (IF t.response.status_code = 400
                            THEN <<"Incorrect username or password.">>
                            ELSE <<>>))
        ELSE IF isinstance(t.exc, "RequestException")
        THEN reraise(t, <<"A request error occurred: " \o t.exc.msg>>)
        ELSE t

create_poll(question, options, token, base_url, net) ==
    LET polls_url == base_url \o "/polls"
        poll_data == PyDict(<< <<"question", question>>, <<"options", options>> >>)
        headers == auth_headers(token)
        t == try_body(requests_post(polls_url, json_dumps(poll_data), headers), net)
    IN  IF ~t.raised THEN t
        ELSE IF isinstance(t.exc, "HTTPError")
        THEN reraise(t, <<"HTTP error occurred: " \o t.exc.msg>>
                        \o (IF t.response.status_code = 401
                            THEN <<"Unauthorized. Please check your token.">>
                            ELSE <<>>))
        ELSE IF isinstance(t.exc, "RequestException")
        THEN reraise(t, <<"A request error occurred: " \o t.exc.msg>>)
        ELSE t

cast_vote(poll_id, option_id, token, base_url, net) ==
    LET vote_url == base_url \o "/polls/" \o py_str(poll_id) \o "/vote"
        vote_data == PyDict(<< <<"option_id", option_id>> >>)
        headers == auth_headers(token)
        t == try_body(requests_post(vote_url, json_dumps(vote_data), headers), net)
    IN  IF ~t.raised THEN t
        ELSE IF isinstance(t.exc, "HTTPError")
        THEN reraise(t, <<"HTTP error occurred: " \o t.exc.msg>>
                        \o (IF t.response.status_code = 401
                            THEN <<"Unauthorized. Please check your token.">>
                            ELSE IF t.response.status_code = 404
                            THEN <<"Poll or option not found.">>
                            ELSE <<>>))
        ELSE IF isinstance(t.exc, "RequestException")
        THEN reraise(t, <<"A request error occurred: " \o t.exc.msg>>)
        ELSE t

get_poll_results(poll_id, base_url, net) ==
    LET results_url == base_url \o "/polls/" \o py_str(poll_id) \o "/results"
        t == try_body(requests_get(results_url, <<>>), net)
    IN  IF ~t.raised THEN t
        ELSE IF isinstance(t.exc, "HTTPError")
        THEN reraise(t, <<"HTTP error occurred: " \o t.exc.msg>>
                        \o (IF t.response.status_code = 404
                            THEN <<"Poll not found.">>
                            ELSE <<>>))
        ELSE IF isinstance(t.exc, "RequestException")
        THEN reraise(t, <<"A request error occurred: " \o t.exc.msg>>)
        ELSE t

----------------------------------------------------------------------------
(* The module imported as a library: the arguments a caller passes. *)

\* Client-function calls one run of the library specification makes.
MaxCalls == 2

DefaultBaseUrl == "http://localhost:8000"

BaseUrls == {DefaultBaseUrl, "http://polly.test"}

Usernames == {PyStr("alice")}

Passwords == {PyStr("a-secure-password")}

Tokens == {PyStr("tok1"), PyStr("tok2")}

PollIds == {PyInt(7)}

OptionIds == {PyInt(3)}

Pages == { <<PyInt(0), PyInt(10)>>, <<PyInt(5), PyInt(2)>> }

Questions == {PyStr("Q")}

OptionLists == {PyList(<<PyStr("A"), PyStr("B")>>)}

NoToken == PyNone

\* The responses and failures the library specification draws from: every
\* status, with a body that is one of three documents or not JSON.
CallerTexts ==
    { "{\"id\": 1, \"username\": \"alice\"}", "{\"access_token\": \"tok2\"}", "[]", "" }

CallerNet ==
    {net \in Net : net.kind = "response" => net.text \in CallerTexts}

CanCall == pc = "imported" /\ calls < MaxCalls

\* One completed call: the function, the token argument (NoToken for the
\* functions that take none), the network's behaviour and the outcome.
Called(op, tok, net, result) ==
    /\ calls' = calls + 1
    /\ n_requests' = n_requests + Len(result.requests)
    /\ earlier_tokens' = IF calls = 0 THEN {} ELSE earlier_tokens \cup {last.token}
    /\ last' = [op |-> op, token |-> tok, net |-> net, result |-> result]
    /\ UNCHANGED <<pc, driver_vars>>

RegisterUser ==
    \E u \in Usernames, p \in Passwords, b \in BaseUrls, net \in CallerNet :
        /\ CanCall
        /\ \E r \in {register_user(u, p, b, net)} : Called("register_user", NoToken, net, r)

GetPolls ==
    \E page \in Pages, b \in BaseUrls, net \in CallerNet :
        /\ CanCall
        /\ \E r \in {get_polls(page[1], page[2], b, net)} : Called("get_polls", NoToken, net, r)

Login ==
    \E u \in Usernames, p \in Passwords, b \in BaseUrls, net \in CallerNet :
        /\ CanCall
        /\ \E r \in {login(u, p, b, net)} : Called("login", NoToken, net, r)

CreatePoll ==
    \E q \in Questions, o \in OptionLists, tok \in Tokens, b \in BaseUrls, net \in CallerNet :
        /\ CanCall
        /\ \E r \in {create_poll(q, o, tok, b, net)} : Called("create_poll", tok, net, r)

CastVote ==
    \E p \in PollIds, o \in OptionIds, tok \in Tokens, b \in BaseUrls, net \in CallerNet :
        /\ CanCall
        /\ \E r \in {cast_vote(p, o, tok, b, net)} : Called("cast_vote", tok, net, r)

GetPollResults ==
    \E p \in PollIds, b \in BaseUrls, net \in CallerNet :
        /\ CanCall
        /\ \E r \in {get_poll_results(p, b, net)} : Called("get_poll_results", NoToken, net, r)

NoCall ==
    [op |-> "none", token |-> NoToken,
     net |-> [kind |-> "none"],
     result |-> Outcome(<<>>, PyNone, NoException, PyNone, <<>>)]

DriverIdle ==
    /\ main_username = Unbound
    /\ new_user = Unbound
    /\ login_response = Unbound
    /\ main_token = Unbound
    /\ new_poll = Unbound
    /\ main_poll_id = Unbound
    /\ main_option_id = Unbound
    /\ vote_confirmation = Unbound
    /\ results = Unbound
    /\ stdout = <<>>
    /\ trace = <<>>
    /\ uncaught = "none"

Init ==
    /\ pc = "imported"
    /\ calls = 0
    /\ n_requests = 0
    /\ last = NoCall
    /\ earlier_tokens = {}
    /\ DriverIdle

Next ==
    \/ RegisterUser
    \/ GetPolls
    \/ Login
    \/ CreatePoll
    \/ CastVote
    \/ GetPollResults

Spec == Init /\ [][Next]_vars

----------------------------------------------------------------------------
(* The example driver, lines 183-254: the module run as a script.  stdout  *)
(* keeps the step banners, the lines the client functions print and the    *)
(* driver's own verdict lines; the lines that echo a payload and the       *)
(* separators are left out.                                                *)

\* f"testuser_{int(time.time())}": the clock at two different starts.
ClockUsernames == {PyStr("testuser_1762300800"), PyStr("testuser_1762300801")}

main_password == PyStr("a-secure-password")

main_question == PyStr("What is your favorite programming language?")

main_options ==
    PyList(<<PyStr("Python"), PyStr("JavaScript"), PyStr("Go"), PyStr("Rust")>>)

\* The bookkeeping of one client call made by the driver.
Invoke(op, tok, net, r) ==
    /\ calls' = calls + 1
    /\ n_requests' = n_requests + Len(r.requests)
    /\ earlier_tokens' = IF calls = 0 THEN {} ELSE earlier_tokens \cup {last.token}
    /\ last' = [op |-> op, token |-> tok, net |-> net, result |-> r]
    /\ trace' = Append(trace, [op |-> op, requests |-> r.requests,
                               raised |-> r.raised, class |-> r.exc.class])

\* Lines 189-196.
Step1 ==
    /\ pc = "step1"
    /\ \E net \in Net :
        \E r \in {register_user(main_username, main_password, DefaultBaseUrl, net)} :
        LET banner == "--- Step 1: Registering user '" \o py_str(main_username) \o "' ---"
        IN  /\ Invoke("register_user", NoToken, net, r)
            /\ IF ~r.raised
               THEN /\ new_user' = r.value
                    /\ stdout' = stdout \o <<banner>> \o r.stdout
                                   \o <<"User registered successfully:">>
                    /\ pc' = "step2"
                    /\ UNCHANGED uncaught
               ELSE IF isinstance(r.exc, "RequestException")
               THEN /\ stdout' = stdout \o <<banner>> \o r.stdout
                                   \o <<"Failed to register user.">>
                    /\ pc' = "exited"
                    /\ UNCHANGED <<new_user, uncaught>>
               ELSE /\ stdout' = stdout \o <<banner>> \o r.stdout
                    /\ pc' = "crashed"
                    /\ uncaught' = r.exc.class
                    /\ UNCHANGED new_user
    /\ UNCHANGED <<main_username, login_response, main_token, new_poll,
                   main_poll_id, main_option_id, vote_confirmation, results>>

\* Faulty variant: the token is not tested (lines 204-206 missing).
Step2_no_token_check ==
    /\ pc = "step2"
    /\ \E net \in Net :
        \E r \in {login(main_username, main_password, DefaultBaseUrl, net)} :
        LET banner == "--- Step 2: Logging in as '" \o py_str(main_username) \o "' ---"
        IN  \E got \in {dict_get(r.value, "access_token", PyNone)} :
            /\ Invoke("login", NoToken, net, r)
            /\ IF ~r.raised /\ got.raised
               THEN /\ login_response' = r.value
                    /\ stdout' = stdout \o <<banner>> \o r.stdout
                    /\ pc' = "crashed"
                    /\ uncaught' = got.class
                    /\ UNCHANGED main_token
               ELSE IF ~r.raised
               THEN /\ login_response' = r.value
                    /\ main_token' = got.value
                    /\ stdout' = stdout \o <<banner>> \o r.stdout
                                   \o <<"Logged in successfully. Token received.">>
                    /\ pc' = "step3"
                    /\ UNCHANGED uncaught
               ELSE /\ stdout' = stdout \o <<banner>> \o r.stdout
                                   \o <<"Failed to log in.">>
                    /\ pc' = "exited"
                    /\ UNCHANGED <<login_response, main_token, uncaught>>
    /\ UNCHANGED <<main_username, new_user, new_poll, main_poll_id,
                   main_option_id, vote_confirmation, results>>

\* Lines 200-210.
Step2 ==
    /\ pc = "step2"
    /\ \E net \in Net :
        \E r \in {login(main_username, main_password, DefaultBaseUrl, net)} :
        LET banner == "--- Step 2: Logging in as '" \o py_str(main_username) \o "' ---"
        IN  \E got \in {dict_get(r.value, "access_token", PyNone)} :
            /\ Invoke("login", NoToken, net, r)
            /\ IF ~r.raised /\ got.raised
               THEN \* login_response.get on a value that is no dict
                    /\ login_response' = r.value
                    /\ stdout' = stdout \o <<banner>> \o r.stdout
                    /\ pc' = "crashed"
                    /\ uncaught' = got.class
                    /\ UNCHANGED main_token
               ELSE IF ~r.raised /\ ~truthy(got.value)
               THEN \* exit() raises SystemExit, which no except clause catches
                    /\ login_response' = r.value
                    /\ main_token' = got.value
                    /\ stdout' = stdout \o <<banner>> \o r.stdout
                                   \o <<"Failed to get access token from login response.">>
                    /\ pc' = "exited"
                    /\ UNCHANGED uncaught
               ELSE IF ~r.raised
               THEN /\ login_response' = r.value
                    /\ main_token' = got.value
                    /\ stdout' = stdout \o <<banner>> \o r.stdout
                                   \o <<"Logged in successfully. Token received.">>
                    /\ pc' = "step3"
                    /\ UNCHANGED uncaught
               ELSE IF isinstance(r.exc, "RequestException")
               THEN /\ stdout' = stdout \o <<banner>> \o r.stdout
                                   \o <<"Failed to log in.">>
                    /\ pc' = "exited"
                    /\ UNCHANGED <<login_response, main_token, uncaught>>
               ELSE /\ stdout' = stdout \o <<banner>> \o r.stdout
                    /\ pc' = "crashed"
                    /\ uncaught' = r.exc.class
                    /\ UNCHANGED <<login_response, main_token>>
    /\ UNCHANGED <<main_username, new_user, new_poll, main_poll_id,
                   main_option_id, vote_confirmation, results>>

\* Lines 222-224: poll_id, then option_id; the first expression that raises
\* ends the extraction.
extract_ids(poll) ==
    LET id == dict_get(poll, "id", PyNone)
        opts == dict_get(poll, "options", PyList(<<PyDict(<<>>)>>))
        first == first_item(opts.value)
        oid == dict_get(first.value, "id", PyNone)
        class == IF id.raised THEN id.class
                 ELSE IF opts.raised THEN opts.class
                 ELSE IF first.raised THEN first.class
                 ELSE IF oid.raised THEN oid.class
                 ELSE "none"
    IN  [class |-> class,
         poll_id |-> IF id.raised THEN Unbound ELSE id.value,
         option_id |-> IF class # "none" THEN Unbound ELSE oid.value]

\* Lines 214-232.
Step3 ==
    /\ pc = "step3"
    /\ \E net \in Net :
        \E r \in {create_poll(main_question, main_options, main_token, DefaultBaseUrl, net)} :
        \E ids \in {extract_ids(r.value)} :
        LET banner == "--- Step 3: Creating a new poll ---"
        IN  /\ Invoke("create_poll", main_token, net, r)
            /\ IF ~r.raised /\ ids.class # "none"
               THEN /\ new_poll' = r.value
                    /\ main_poll_id' = ids.poll_id
                    /\ UNCHANGED main_option_id
                    /\ stdout' = stdout \o <<banner>> \o r.stdout
                                   \o <<"Poll created successfully:">>
                    /\ pc' = "crashed"
                    /\ uncaught' = ids.class
               ELSE IF ~r.raised /\ (~truthy(ids.poll_id) \/ ~truthy(ids.option_id))
               THEN /\ new_poll' = r.value
                    /\ main_poll_id' = ids.poll_id
                    /\ main_option_id' = ids.option_id
                    /\ stdout' = stdout \o <<banner>> \o r.stdout
                                   \o <<"Poll created successfully:",
                                        "Failed to get poll ID or option ID from the created poll.">>
                    /\ pc' = "exited"
                    /\ UNCHANGED uncaught
               ELSE IF ~r.raised
               THEN /\ new_poll' = r.value
                    /\ main_poll_id' = ids.poll_id
                    /\ main_option_id' = ids.option_id
                    /\ stdout' = stdout \o <<banner>> \o r.stdout
                                   \o <<"Poll created successfully:">>
                    /\ pc' = "step4"
                    /\ UNCHANGED uncaught
               ELSE IF isinstance(r.exc, "RequestException")
               THEN /\ stdout' = stdout \o <<banner>> \o r.stdout
                                   \o <<"Failed to create poll.">>
                    /\ pc' = "exited"
                    /\ UNCHANGED <<new_poll, main_poll_id, main_option_id, uncaught>>
               ELSE /\ stdout' = stdout \o <<banner>> \o r.stdout
                    /\ pc' = "crashed"
                    /\ uncaught' = r.exc.class
                    /\ UNCHANGED <<new_poll, main_poll_id, main_option_id>>
    /\ UNCHANGED <<main_username, new_user, login_response, main_token,
                   vote_confirmation, results>>

\* Faulty variant: a failed vote ends the run.
Step4_abort ==
    /\ pc = "step4"
    /\ \E net \in Net :
        \E r \in {cast_vote(main_poll_id, main_option_id, main_token, DefaultBaseUrl, net)} :
        LET banner == "--- Step 4: Casting a vote on poll " \o py_str(main_poll_id)
                          \o " for option " \o py_str(main_option_id) \o " ---"
        IN  /\ Invoke("cast_vote", main_token, net, r)
            /\ IF ~r.raised
               THEN /\ vote_confirmation' = r.value
                    /\ stdout' = stdout \o <<banner>> \o r.stdout
                                   \o <<"Vote cast successfully:">>
                    /\ pc' = "step5"
                    /\ UNCHANGED uncaught
               ELSE /\ stdout' = stdout \o <<banner>> \o r.stdout
                                   \o <<"Failed to cast vote.">>
                    /\ pc' = "exited"
                    /\ UNCHANGED <<vote_confirmation, uncaught>>
    /\ UNCHANGED <<main_username, new_user, login_response, main_token, new_poll,
                   main_poll_id, main_option_id, results>>

\* Lines 236-244.
Step4 ==
    /\ pc = "step4"
    /\ \E net \in Net :
        \E r \in {cast_vote(main_poll_id, main_option_id, main_token, DefaultBaseUrl, net)} :
        LET banner == "--- Step 4: Casting a vote on poll " \o py_str(main_poll_id)
                          \o " for option " \o py_str(main_option_id) \o " ---"
        IN  /\ Invoke("cast_vote", main_token, net, r)
            /\ IF ~r.raised
               THEN /\ vote_confirmation' = r.value
                    /\ stdout' = stdout \o <<banner>> \o r.stdout
                                   \o <<"Vote cast successfully:">>
                    /\ pc' = "step5"
                    /\ UNCHANGED uncaught
               ELSE IF isinstance(r.exc, "RequestException")
               THEN \* pass: the results are still fetched
                    /\ stdout' = stdout \o <<banner>> \o r.stdout
                                   \o <<"Failed to cast vote.">>
                    /\ pc' = "step5"
                    /\ UNCHANGED <<vote_confirmation, uncaught>>
               ELSE /\ stdout' = stdout \o <<banner>> \o r.stdout
                    /\ pc' = "crashed"
                    /\ uncaught' = r.exc.class
                    /\ UNCHANGED vote_confirmation
    /\ UNCHANGED <<main_username, new_user, login_response, main_token, new_poll,
                   main_poll_id, main_option_id, results>>

\* Faulty variant: Step 5 lists the polls instead.
Step5_list_polls ==
    /\ pc = "step5"
    /\ \E net \in Net :
        \E r \in {get_polls(PyInt(0), PyInt(10), DefaultBaseUrl, net)} :
        LET banner == "--- Step 5: Retrieving results for poll "
                          \o py_str(main_poll_id) \o " ---"
        IN  /\ Invoke("get_polls", NoToken, net, r)
            /\ IF ~r.raised
               THEN /\ results' = r.value
                    /\ stdout' = stdout \o <<banner>> \o r.stdout
                                   \o <<"Poll results retrieved successfully:">>
                    /\ pc' = "done"
                    /\ UNCHANGED uncaught
               ELSE IF isinstance(r.exc, "RequestException")
               THEN /\ stdout' = stdout \o <<banner>> \o r.stdout
                                   \o <<"Failed to retrieve poll results.">>
                    /\ pc' = "done"
                    /\ UNCHANGED <<results, uncaught>>
               ELSE /\ stdout' = stdout \o <<banner>> \o r.stdout
                    /\ pc' = "crashed"
                    /\ uncaught' = r.exc.class
                    /\ UNCHANGED results
    /\ UNCHANGED <<main_username, new_user, login_response, main_token, new_poll,
                   main_poll_id, main_option_id, vote_confirmation>>

\* Lines 248-254.
Step5 ==
    /\ pc = "step5"
    /\ \E net \in Net :
        \E r \in {get_poll_results(main_poll_id, DefaultBaseUrl, net)} :
        LET banner == "--- Step 5: Retrieving results for poll "
                          \o py_str(main_poll_id) \o " ---"
        IN  /\ Invoke("get_poll_results", NoToken, net, r)
            /\ IF ~r.raised
               THEN /\ results' = r.value
                    /\ stdout' = stdout \o <<banner>> \o r.stdout
                                   \o <<"Poll results retrieved successfully:">>
                    /\ pc' = "done"
                    /\ UNCHANGED uncaught
               ELSE IF isinstance(r.exc, "RequestException")
               THEN /\ stdout' = stdout \o <<banner>> \o r.stdout
                                   \o <<"Failed to retrieve poll results.">>
                    /\ pc' = "done"
                    /\ UNCHANGED <<results, uncaught>>
               ELSE /\ stdout' = stdout \o <<banner>> \o r.stdout
                    /\ pc' = "crashed"
                    /\ uncaught' = r.exc.class
                    /\ UNCHANGED results
    /\ UNCHANGED <<main_username, new_user, login_response, main_token, new_poll,
                   main_poll_id, main_option_id, vote_confirmation>>

DriverInit ==
    /\ pc = "step1"
    /\ calls = 0
    /\ n_requests = 0
    /\ last = NoCall
    /\ earlier_tokens = {}
    /\ main_username \in ClockUsernames
    /\ new_user = Unbound
    /\ login_response = Unbound
    /\ main_token = Unbound
    /\ new_poll = Unbound
    /\ main_poll_id = Unbound
    /\ main_option_id = Unbound
    /\ vote_confirmation = Unbound
    /\ results = Unbound
    /\ stdout = <<>>
    /\ trace = <<>>
    /\ uncaught = "none"

DriverNext ==
    \/ Step1
    \/ Step2
    \/ Step3
    \/ Step4
    \/ Step5

DriverSpec == DriverInit /\ [][DriverNext]_vars

----------------------------------------------------------------------------
(* Properties of the client functions, checked under Spec. *)

SixOps ==
    {"register_user", "login", "get_polls", "create_poll", "cast_vote",
     "get_poll_results"}

Answered == last.op \in SixOps /\ last.net.kind = "response"

Unanswered == last.op \in SixOps /\ last.net.kind = "no_response"

IsJson(text) == \E d \in Documents : d.text = text

\* The JSON value X a body denotes.
Denoted(text) == (CHOOSE d \in Documents : d.text = text).value

RaisedHttpError(status) ==
    /\ last.result.raised
    /\ last.result.value = PyNone
    /\ last.result.exc.class = "HTTPError"
    /\ last.result.exc.response.status_code = status

HintLines ==
    {"Username may already be registered.", "Incorrect username or password.",
     "Unauthorized. Please check your token.", "Poll or option not found.",
     "Poll not found."}

HintsPrinted ==
    {last.result.stdout[i] : i \in DOMAIN last.result.stdout} \cap HintLines

\* C1 as stated: for each of the six operations, every answer whose status
\* is outside 200-299 (1xx and 3xx included) makes the call fail with an
\* HTTP-status error carrying that status.
C1_NonSuccessStatusRaises ==
    (Answered /\ last.net.status_code \notin 200..299)
        => RaisedHttpError(last.net.status_code)

\* C1 as amended: for each of the six operations, every answer whose status
\* is in 400-599 makes the call fail, returning no value, with an
\* HTTP-status error carrying that status; an answer with any other status
\* (1xx and 3xx included) raises no HTTP-status error.
C1_ErrorStatusRaises ==
    Answered =>
        IF last.net.status_code \in 400..599
        THEN RaisedHttpError(last.net.status_code)
        ELSE last.result.exc.class # "HTTPError"

C1_Witness ==
    /\ Answered
    /\ last.op = "get_poll_results"
    /\ last.net.status_code = 500
    /\ RaisedHttpError(500)

\* C2: for each of the six operations, an answer with a 2xx status and a
\* JSON body X makes the call return X, and raise nothing.
C2_SuccessPassesBodyThrough ==
    (Answered /\ last.net.status_code \in 200..299 /\ IsJson(last.net.text))
        => /\ ~last.result.raised
           /\ last.result.exc = NoException
           /\ last.result.value = Denoted(last.net.text)

C2_Witness ==
    /\ Answered
    /\ last.op = "create_poll"
    /\ last.net.status_code = 201
    /\ last.net.text = "{\"id\": 1, \"username\": \"alice\"}"
    /\ ~last.result.raised
    /\ last.result.value
         = PyDict(<< <<"id", PyInt(1)>>, <<"username", PyStr("alice")>> >>)

\* C3: for each of the six operations, a request that gets no response makes
\* the call raise a transport error, which is no HTTP-status error; the
\* HTTP-status handler does not run (neither its line nor a hint is
\* printed, only the request-error line), and the error reaches the caller.
C3_NoResponseRaisesTransportError ==
    Unanswered =>
        /\ last.result.raised
        /\ last.result.value = PyNone
        /\ last.result.exc.class = last.net.class
        /\ last.result.exc.class \in NoResponse
        /\ ~isinstance(last.result.exc, "HTTPError")
        /\ last.result.response = PyNone
        /\ last.result.stdout
             = <<"A request error occurred: " \o last.result.exc.msg>>
        /\ HintsPrinted = {}

C3_Witness ==
    /\ Unanswered
    /\ last.op = "login"
    /\ last.net.class = "Timeout"
    /\ last.result.raised
    /\ last.result.exc.class = "Timeout"

\* The three ways a call fails: no response, a status the library raises
\* for, a body that is not JSON.
Failed ==
    \/ Unanswered
    \/ Answered /\ last.net.status_code \in 400..599
    \/ Answered /\ ~IsJson(last.net.text)

ExpectedHints(op, status) ==
    CASE op = "register_user" /\ status = 400
            -> {"Username may already be registered."}
      [] op = "login" /\ status = 400
            -> {"Incorrect username or password."}
      [] op = "create_poll" /\ status = 401
            -> {"Unauthorized. Please check your token."}
      [] op = "cast_vote" /\ status = 401
            -> {"Unauthorized. Please check your token."}
      [] op = "cast_vote" /\ status = 404
            -> {"Poll or option not found."}
      [] op = "get_poll_results" /\ status = 404
            -> {"Poll not found."}
      [] OTHER -> {}

\* C5: a hint is printed exactly for (register, 400), (login, 400),
\* (create_poll, 401), (cast_vote, 401), (cast_vote, 404) and
\* (get_poll_results, 404), each with its own text, and for no other pair
\* (none at all for get_polls); with a hint the HTTP-status error still
\* reaches the caller.
C5_HintsExactlyForListedPairs ==
    /\ Answered =>
          /\ HintsPrinted = ExpectedHints(last.op, last.net.status_code)
          /\ HintsPrinted # {} => RaisedHttpError(last.net.status_code)
    /\ ~Answered => HintsPrinted = {}

C5_Witness ==
    /\ Answered
    /\ last.op = "cast_vote"
    /\ last.net.status_code = 404
    /\ HintsPrinted = {"Poll or option not found."}
    /\ RaisedHttpError(404)

\* C6: for each of the six operations, an answer with a 2xx status whose
\* body is not JSON makes the call raise a decode error, which is neither
\* the HTTP-status error nor a transport error; no hint is printed and no
\* value is returned.
C6_BadBodyRaisesDecodeError ==
    (Answered /\ last.net.status_code \in 200..299 /\ ~IsJson(last.net.text))
        => /\ last.result.raised
           /\ last.result.value = PyNone
           /\ last.result.exc.class = "JSONDecodeError"
           /\ last.result.exc.class \notin {"HTTPError"} \cup NoResponse
           /\ ~isinstance(last.result.exc, "HTTPError")
           /\ HintsPrinted = {}

C6_Witness ==
    /\ Answered
    /\ last.op = "register_user"
    /\ last.net.status_code = 200
    /\ last.net.text = ""
    /\ last.result.raised
    /\ last.result.exc.class = "JSONDecodeError"

\* C7: every request of create_poll and cast_vote carries the header
\* Authorization: Bearer <token> with the token argument of that call,
\* whatever token an earlier call was given; no request of the other four
\* operations carries an Authorization header.
C7_BearerTokenOfTheCall ==
    \A i \in DOMAIN last.result.requests :
        LET headers == last.result.requests[i].headers
        IN  IF last.op \in {"create_poll", "cast_vote"}
            THEN /\ "Authorization" \in DOMAIN headers
                 /\ headers["Authorization"] = "Bearer " \o last.token.s
            ELSE "Authorization" \notin DOMAIN headers

C7_Witness ==
    /\ last.op = "cast_vote"
    /\ last.token = PyStr("tok2")
    /\ PyStr("tok1") \in earlier_tokens
    /\ last.result.requests[1].headers["Authorization"] = "Bearer tok2"

----------------------------------------------------------------------------
(* Properties of the example driver, checked under DriverSpec. *)

Attempted(op) == \E i \in DOMAIN trace : trace[i].op = op

Ended == pc \in {"done", "exited", "crashed"}

\* The values `not v' takes for missing, empty or zero.
Falsy == {PyNone, PyStr(""), PyInt(0), PyList(<<>>), PyDict(<<>>)}

\* The value under `key' of a payload, PyNone when it has none.
Field(payload, key) ==
    IF payload.t = "dict" /\ \E i \in DOMAIN payload.items : payload.items[i][1] = key
    THEN payload.items[CHOOSE i \in DOMAIN payload.items : payload.items[i][1] = key][2]
    ELSE PyNone

\* The id of the first option of a poll payload, PyNone when it has none.
FirstOptionId(payload) ==
    LET options == Field(payload, "options")
    IN  IF options.t = "list" /\ Len(options.items) > 0
        THEN Field(options.items[1], "id")
        ELSE PyNone

\* A step succeeded: its call returned, and the payload gave what the
\* driver takes from it.
RegisterSucceeded == Len(trace) >= 1 /\ ~trace[1].raised

LoginSucceeded ==
    /\ Len(trace) >= 2
    /\ ~trace[2].raised
    /\ Field(login_response, "access_token") \notin Falsy

CreateSucceeded ==
    /\ Len(trace) >= 3
    /\ ~trace[3].raised
    /\ Field(new_poll, "id") \notin Falsy
    /\ FirstOptionId(new_poll) \notin Falsy

VoteFailed == Len(trace) >= 4 /\ trace[4].raised

\* C8: a failed register, login or create-poll step ends the run with no
\* further request; a failed vote step, whatever the error, does not: the
\* results are fetched next.  A finished run has fetched the results
\* exactly when register, login and create-poll all succeeded.
C8_OnlyVoteFailureContinues ==
    /\ (Len(trace) >= 1 /\ ~RegisterSucceeded) => (Ended /\ Len(trace) = 1)
    /\ (Len(trace) >= 2 /\ ~LoginSucceeded) => (Ended /\ Len(trace) = 2)
    /\ (Len(trace) >= 3 /\ ~CreateSucceeded) => (Ended /\ Len(trace) = 3)
    /\ VoteFailed => /\ pc \in {"step5", "done"}
                     /\ pc = "done" => Attempted("get_poll_results")
    /\ Ended => (Attempted("get_poll_results")
                    <=> (RegisterSucceeded /\ LoginSucceeded /\ CreateSucceeded))

C8_Witness ==
    /\ pc = "done"
    /\ VoteFailed
    /\ trace[4].class = "JSONDecodeError"
    /\ trace[5].op = "get_poll_results"

EveryStepSucceeded ==
    /\ pc = "done"
    /\ \A i \in DOMAIN trace : ~trace[i].raised

Position(op) == CHOOSE i \in DOMAIN trace : trace[i].op = op

\* C9 as stated: a run in which every step succeeds invokes each of the six
\* operations, with register before login before create poll before vote
\* before fetch results.
C9_AllSixInvoked ==
    EveryStepSucceeded =>
        /\ \A op \in SixOps : Attempted(op)
        /\ Position("register_user") < Position("login")
        /\ Position("login") < Position("create_poll")
        /\ Position("create_poll") < Position("cast_vote")
        /\ Position("cast_vote") < Position("get_poll_results")

\* C9 as amended: a run in which every step succeeds invokes five of the
\* six operations, once each, in the order register, login, create poll,
\* vote, fetch results; no run invokes list polls.
C9_FiveInvokedInOrder ==
    /\ EveryStepSucceeded =>
          [i \in DOMAIN trace |-> trace[i].op]
              = <<"register_user", "login", "create_poll", "cast_vote",
                  "get_poll_results">>
    /\ ~Attempted("get_polls")

C9_Witness ==
    /\ EveryStepSucceeded
    /\ Len(trace) = 5
    /\ results # Unbound
    /\ vote_confirmation # Unbound

\* C10: create_poll is called only with the access_token of this run's
\* login response, which is not missing, empty or zero; cast_vote and
\* get_poll_results are called only with the id of this run's created poll
\* and the id of its first option, neither missing, empty or zero.
C10_CallsUseExtractedValues ==
    \A i \in DOMAIN trace :
        LET request == trace[i].requests[1]
        IN  /\ trace[i].op = "create_poll" =>
                  /\ Field(login_response, "access_token") \notin Falsy
                  /\ main_token = Field(login_response, "access_token")
                  /\ request.headers["Authorization"]
                       = "Bearer " \o Field(login_response, "access_token").s
            /\ trace[i].op \in {"cast_vote", "get_poll_results"} =>
                  /\ Field(new_poll, "id") \notin Falsy
                  /\ FirstOptionId(new_poll) \notin Falsy
                  /\ main_poll_id = Field(new_poll, "id")
                  /\ main_option_id = FirstOptionId(new_poll)
            /\ trace[i].op = "cast_vote" =>
                  /\ request.url = DefaultBaseUrl \o "/polls/"
                                      \o ToString(Field(new_poll, "id").n) \o "/vote"
                  /\ request.data = "{\"option_id\": "
                                      \o ToString(FirstOptionId(new_poll).n) \o "}"
            /\ trace[i].op = "get_poll_results" =>
                  request.url = DefaultBaseUrl \o "/polls/"
                                   \o ToString(Field(new_poll, "id").n) \o "/results"

C10_Witness ==
    /\ Len(trace) = 5
    /\ trace[3].op = "create_poll"
    /\ main_token = PyStr("tok2")
    /\ trace[4].requests[1].url = "http://localhost:8000/polls/7/vote"
    /\ trace[4].requests[1].data = "{\"option_id\": 3}"
    /\ trace[5].requests[1].url = "http://localhost:8000/polls/7/results"

====
